---- MODULE Spec2Model ----
(***************************************************************************)
(* AutoMeta: the document-to-metadata pipeline of the three entry points   *)
(*   notebook     src/auto_meta_metadata_generation.py, lines 1-94         *)
(*   ui_chunked   src/auto_meta_metadata_generation.py, lines 97-219       *)
(*   ui_truncate  src/streamlit_app.py                                     *)
(* A text is a sequence of one-character strings.  The external            *)
(* capabilities (PDF parser, DOCX parser, OCR, summarizer, keyword model)  *)
(* are opaque: each call either raises or returns, and every call is       *)
(* appended to the log `calls` with its argument and its result.           *)
(***************************************************************************)
EXTENDS Integers, Sequences, FiniteSets, TLC

VARIABLES entry, present, file, pc, text, doc_type, calls, metadata, out, escaped

vars == <<entry, present, file, pc, text, doc_type, calls, metadata, out, escaped>>

\* ---------------------------------------------------------------- bounds
MaxPages == 2   \* pages of a PDF / paragraphs of a DOCX
MaxK == 5       \* long texts have up to MaxK * chunk_size characters (+-1)
LeadLen == 3    \* characters an extractive summarizer model copies

\* ------------------------------------------------------ program constants
TruncLen == 1024
ChunkSize == 1000
MaxChunks == 5

\* ---------------------------------------------------------------- helpers
Min2(a, b) == IF a <= b THEN a ELSE b

MinOf(S) == CHOOSE x \in S : \A y \in S : x <= y

MaxOf(S) == CHOOSE x \in S : \A y \in S : y <= x

SeqsUpTo(S, n) == UNION {[1..k -> S] : k \in 0..n}

\* str.isspace for the characters used here
IsSpace(c) == c \in {" ", "\n", "\t"}

\* str.strip(): drop leading and trailing whitespace
Strip(s) ==
  LET ns == {i \in 1..Len(s) : ~IsSpace(s[i])}
  IN IF ns = {} THEN <<>> ELSE SubSeq(s, MinOf(ns), MaxOf(ns))

\* sep.join(parts)
RECURSIVE Join(_, _)
Join(parts, sep) ==
  IF Len(parts) = 0 THEN <<>>
  ELSE IF Len(parts) = 1 THEN parts[1]
  ELSE parts[1] \o sep \o Join(Tail(parts), sep)

\* str.split(sep) for a one-character separator: the pieces between separators
RECURSIVE SplitOn(_, _)
SplitOn(s, sep) ==
  LET hits == {i \in 1..Len(s) : s[i] = sep}
  IN IF hits = {} THEN <<s>>
     ELSE LET i == MinOf(hits)
          IN <<SubSeq(s, 1, i - 1)>> \o SplitOn(SubSeq(s, i + 1, Len(s)), sep)

\* faulty variant: len(text.split(' '))
WordCountSingleSpace(t) == Cardinality({i \in 1..Len(t) : t[i] = " "}) + 1

\* faulty variant: len(text)
WordCountChars(t) == Len(t)

\* len(text.split()): the maximal runs of non-whitespace, counted by their starts

WordCount(t) ==
  Cardinality({i \in 1..Len(t) : ~IsSpace(t[i]) /\ (i = 1 \/ IsSpace(t[i - 1]))})

\* str.lower(), on the letters that occur in the file names
LowerChar(c) ==
  CASE c = "P" -> "p" [] c = "D" -> "d" [] c = "F" -> "f" [] c = "T" -> "t"
    [] c = "X" -> "x" [] c = "O" -> "o" [] c = "C" -> "c" [] OTHER -> c

Lower(s) == [i \in 1..Len(s) |-> LowerChar(s[i])]

\* pathlib's Path(name).suffix: from the last dot, unless the dot is the
\* first or the last character of the name
Suffix(name) ==
  LET dots == {i \in 1..Len(name) : name[i] = "."}
  IN IF dots = {} THEN <<>>
     ELSE LET i == MaxOf(dots)
          IN IF i > 1 /\ i < Len(name) THEN SubSeq(name, i, Len(name)) ELSE <<>>

Ext(name) == Lower(Suffix(name))

DotPdf == <<".", "p", "d", "f">>
DotDocx == <<".", "d", "o", "c", "x">>
DotTxt == <<".", "t", "x", "t">>

\* faulty variant: a final `else:` in place of `elif ext == ".txt":`
KindElseTxt(ext) ==
  IF ext = DotPdf THEN "pdf" ELSE IF ext = DotDocx THEN "docx" ELSE "txt"

\* the branch of the extension dispatch
Kind(ext) ==
  IF ext = DotPdf THEN "pdf"
  ELSE IF ext = DotDocx THEN "docx"
  ELSE IF ext = DotTxt THEN "txt"
  ELSE "other"

\* ----------------------------------------------------------------- inputs
SampleName == <<"s", "a", "m", "p", "l", "e", ".", "t", "x", "t">>

SampleText ==
  <<"T", "h", "e", " ", "q", "u", "i", "c", "k", " ", "b", "r", "o", "w", "n",
    " ", "f", "o", "x", ".", " ", "I", "t", " ", "j", "u", "m", "p", "s", ".">>

PdfNames == {<<"a", ".", "p", "d", "f">>, <<"b", ".", "P", "D", "F">>}
DocxNames == {<<"a", ".", "d", "o", "c", "x">>}
TxtNames == {SampleName}
OtherNames == {<<"a", ".", "m", "d">>, <<"n", "o", "e", "x", "t">>, DotTxt}

PageTexts == {<<>>, <<" ">>, <<"a", ".", " ", "b">>, <<"\n", "c", " ">>}
OcrTexts == {<<>>, <<"o", " ", "k", ".", "\n">>}

Patterns == {<<"a", "b", " ">>, <<"w", ".", "\n">>}

Gen(p, L) == [i \in 1..L |-> p[((i - 1) % Len(p)) + 1]]

Lens ==
  {n \in {k * ChunkSize + d : k \in 0..MaxK, d \in {-1, 0, 1}} : n >= 1}
    \cup {TruncLen - 1, TruncLen, TruncLen + 1}

LongTexts == {Gen(p, L) : p \in Patterns, L \in Lens}

TxtContents == {<<>>, <<" ", "\n">>, <<" ", "h", "i", "\t">>, SampleText} \cup LongTexts

PdfDocs ==
  UNION {{[name |-> n, pages |-> ps, ocr |-> os, paras |-> <<>>, content |-> <<>>] :
            n \in PdfNames, os \in [1..Len(ps) -> OcrTexts]} :
         ps \in SeqsUpTo(PageTexts, MaxPages)}

DocxDocs ==
  {[name |-> n, pages |-> <<>>, ocr |-> <<>>, paras |-> ps, content |-> <<>>] :
     n \in DocxNames, ps \in SeqsUpTo(PageTexts, MaxPages)}

TxtDocs ==
  {[name |-> n, pages |-> <<>>, ocr |-> <<>>, paras |-> <<>>, content |-> c] :
     n \in TxtNames, c \in TxtContents}

OtherDocs ==
  {[name |-> n, pages |-> <<<<"a", ".", " ", "b">>>>, ocr |-> <<<<"o">>>>,
    paras |-> <<<<"a", ".", " ", "b">>>>, content |-> SampleText] : n \in OtherNames}

Docs == PdfDocs \cup DocxDocs \cup TxtDocs \cup OtherDocs

Entries == {"notebook", "ui_chunked", "ui_truncate"}

\* ------------------------------------------------- extraction capabilities
NL == <<"\n">>

\* faulty variant: the .strip() left out
extract_text_from_pdf_nostrip(f) == Join(f.pages, NL)

extract_text_from_pdf(f) == Strip(Join(f.pages, NL))

extract_text_from_docx(f) == Strip(Join(f.paras, NL))

extract_text_via_ocr(f) == Strip(Join(f.ocr, NL))

read_text(f) == f.content

Call(cap, arg, ok, ret) == [cap |-> cap, arg |-> arg, ok |-> ok, ret |-> ret]

Outcome(t, d, cs, r) == [text |-> t, doc_type |-> d, calls |-> cs, raised |-> r]

\* process_file / the inline dispatch of the two UI scripts: every way the
\* dispatch can end, an exception of a capability included
ProcessFile(f) ==
  LET kind == Kind(Ext(f.name))
      direct == extract_text_from_pdf(f)
      ocr == extract_text_via_ocr(f)
      docx == extract_text_from_docx(f)
      txt == read_text(f)
  IN IF kind = "pdf" THEN
       {Outcome(<<>>, "Unknown", <<Call("pdf-parse", f.name, FALSE, <<>>)>>, "pdf-parse")}
       \cup
       (IF direct = <<>> THEN
          {Outcome(direct, "Unknown",
                   <<Call("pdf-parse", f.name, TRUE, direct),
                     Call("ocr", f.name, FALSE, <<>>)>>, "ocr"),
           Outcome(ocr, "Scanned PDF",
                   <<Call("pdf-parse", f.name, TRUE, direct),
                     Call("ocr", f.name, TRUE, ocr)>>, "none")}
        ELSE
          {Outcome(direct, "PDF", <<Call("pdf-parse", f.name, TRUE, direct)>>, "none")})
     ELSE IF kind = "docx" THEN
       {Outcome(<<>>, "Unknown", <<Call("docx-parse", f.name, FALSE, <<>>)>>, "docx-parse"),
        Outcome(docx, "DOCX", <<Call("docx-parse", f.name, TRUE, docx)>>, "none")}
     ELSE IF kind = "txt" THEN
       {Outcome(<<>>, "Unknown", <<Call("txt-read", f.name, FALSE, <<>>)>>, "txt-read"),
        Outcome(txt, "TXT", <<Call("txt-read", f.name, TRUE, txt)>>, "none")}
     ELSE {Outcome(<<>>, "Unknown", <<>>, "none")}

\* ------------------------------------------------------------ state machine
Init ==
  /\ entry \in Entries
  /\ present \in BOOLEAN
  /\ file \in Docs
  /\ pc = "start"
  /\ text = <<>>
  /\ doc_type = "Unknown"
  /\ calls = <<>>
  /\ metadata = <<>>
  /\ out = <<>>
  /\ escaped = "none"

Msg(kind, body) == [kind |-> kind, body |-> body]

\* notebook: if os.path.exists(file_path) ... else print("File not found ...")
NbCheckExists ==
  /\ pc = "start" /\ entry = "notebook"
  /\ IF present
       THEN pc' = "extract" /\ out' = out
       ELSE pc' = "done" /\ out' = Append(out, Msg("warning", "File not found"))
  /\ UNCHANGED <<entry, present, file, text, doc_type, calls, metadata, escaped>>

\* UI: if uploaded: (write the temporary file) ... else st.info(...)
UiUpload ==
  /\ pc = "start" /\ entry # "notebook"
  /\ IF present
       THEN pc' = "extract" /\ out' = out
       ELSE pc' = "done" /\ out' = Append(out, Msg("info", "Please upload a document"))
  /\ UNCHANGED <<entry, present, file, text, doc_type, calls, metadata, escaped>>

Extract ==
  /\ pc = "extract"
  /\ \E o \in ProcessFile(file) :
       /\ calls' = calls \o o.calls
       /\ IF o.raised = "none"
            THEN /\ text' = o.text /\ doc_type' = o.doc_type
                 /\ pc' = "checktext" /\ escaped' = escaped
            ELSE /\ pc' = "crashed" /\ escaped' = o.raised
                 /\ UNCHANGED <<text, doc_type>>
  /\ UNCHANGED <<entry, present, file, metadata, out>>

\* faulty variant: the emptiness test left out
HasTextAlways(t) == TRUE

\* `if raw_text:` / `if text:`
HasText(t) == t # <<>>

\* notebook: if raw_text: ... else print("No text found in the document.")
\* UI: if text: st.success(...) ... else st.error("Could not extract text ...")
CheckText ==
  /\ pc = "checktext"
  /\ IF HasText(text)
       THEN /\ pc' = "generate"
            /\ out' = IF entry = "notebook" THEN out
                      ELSE Append(out, Msg("success", "Document processed successfully"))
       ELSE /\ pc' = "done"
            /\ out' = IF entry = "notebook"
                      THEN Append(out, Msg("error", "No text found in the document"))
                      ELSE Append(out, Msg("error", "Could not extract text from the file"))
  /\ UNCHANGED <<entry, present, file, text, doc_type, calls, metadata, escaped>>

\* ------------------------------------------------------- model capabilities
\* The summarization model is a deterministic function of its input
\* (do_sample=False); which function is not known, so a run picks one.
SummarizerModels == {"lead", "sentences", "nodot", "dotfirst"}

Summarizer(m, input) ==
  CASE m = "lead" -> SubSeq(input, 1, Min2(Len(input), LeadLen))
    [] m = "sentences" -> <<"S", ".", " ", "T", ".">>
    [] m = "nodot" -> <<"S", " ", "T">>
    [] m = "dotfirst" -> <<".", "S">>

\* kw_model.extract_keywords(...): ranked (phrase, score) pairs
KwResults == {<<>>, <<<<"k1", 2>>, <<"k2", 1>>>>}

\* [kw[0] for kw in keywords]
Phrases(kws) == [i \in 1..Len(kws) |-> kws[i][1]]

\* faulty variant: empty title for a summary without a period
TitleEmptyIfNoDot(summary) ==
  IF \A i \in 1..Len(summary) : summary[i] # "." THEN <<>>
  ELSE SplitOn(summary, ".")[1]

\* faulty variant: the period kept in the title
TitleWithDot(summary) ==
  IF \A i \in 1..Len(summary) : summary[i] # "." THEN summary
  ELSE SplitOn(summary, ".")[1] \o <<".">>

\* summary.split('.')[0]
Title(summary) == SplitOn(summary, ".")[1]

Record(summary, kws, d, t) ==
  [title |-> Title(summary), summary |-> summary, keywords |-> Phrases(kws),
   document_type |-> d, word_count |-> WordCount(t)]

\* faulty variant: off by one in the test and in the slice
ShortTextOff(t) == IF Len(t) >= TruncLen THEN SubSeq(t, 1, TruncLen - 1) ELSE t

\* text[:1024] if len(text) > 1024 else text
ShortText(t) == IF Len(t) > TruncLen THEN SubSeq(t, 1, TruncLen) ELSE t

\* faulty variant: the last, shorter chunk dropped
ChunksDropTail(t, size) ==
  [k \in 1..(Len(t) \div size) |-> SubSeq(t, (k - 1) * size + 1, k * size)]

\* [text[i:i+chunk_size] for i in range(0, len(text), chunk_size)]
Chunks(t, size) ==
  [k \in 1..((Len(t) + size - 1) \div size) |->
     SubSeq(t, (k - 1) * size + 1, Min2(k * size, Len(t)))]

\* chunks[:max_chunks]
Take(s, n) == SubSeq(s, 1, Min2(Len(s), n))

GenOutcome(rec, cs, r) == [rec |-> rec, calls |-> cs, raised |-> r]

\* the keyword call and the record, after the summary is known
Finish(summary, sumCalls, kws, d, t) ==
  {GenOutcome(<<>>, Append(sumCalls, Call("keywords", t, FALSE, <<>>)), "keywords"),
   GenOutcome(<<Record(summary, kws, d, t)>>,
              Append(sumCalls, Call("keywords", t, TRUE, kws)), "none")}

\* generate_metadata of the notebook and of streamlit_app.py
GenerateTruncate(t, d, m, kws) ==
  LET short_text == ShortText(t)
      summary == Summarizer(m, short_text)
  IN {GenOutcome(<<>>, <<Call("summarize", short_text, FALSE, <<>>)>>, "summarize")}
     \cup Finish(summary, <<Call("summarize", short_text, TRUE, summary)>>, kws, d, t)

\* summarize_long_text + generate_metadata of the enhanced UI
GenerateChunked(t, d, m, kws) ==
  LET chunks == Take(Chunks(t, ChunkSize), MaxChunks)
      summaries == [k \in 1..Len(chunks) |-> Summarizer(m, chunks[k])]
      done(n) == [k \in 1..n |-> Call("summarize", chunks[k], TRUE, summaries[k])]
      summary == Join(summaries, <<" ">>)
  IN {GenOutcome(<<>>, Append(done(k - 1), Call("summarize", chunks[k], FALSE, <<>>)),
                 "summarize") : k \in 1..Len(chunks)}
     \cup Finish(summary, done(Len(chunks)), kws, d, t)

GenerateMetadata ==
  /\ pc = "generate"
  /\ \E m \in SummarizerModels, kws \in KwResults :
       \E o \in (IF entry = "ui_chunked" THEN GenerateChunked(text, doc_type, m, kws)
                 ELSE GenerateTruncate(text, doc_type, m, kws)) :
         /\ calls' = calls \o o.calls
         /\ metadata' = o.rec
         /\ IF o.raised = "none"
              THEN pc' = "output" /\ escaped' = escaped
              ELSE pc' = "crashed" /\ escaped' = o.raised
  /\ UNCHANGED <<entry, present, file, text, doc_type, out>>

\* print(json.dumps(metadata, indent=4)); print(yaml.dump(metadata, sort_keys=False))
\* UI: st.json(metadata); st.code(yaml.dump(...)); the enhanced UI also shows the text
Output ==
  /\ pc = "output"
  /\ out' = out \o <<Msg("json", metadata[1]), Msg("yaml", metadata[1])>>
              \o (IF entry = "ui_chunked" THEN <<Msg("text", text)>> ELSE <<>>)
  /\ pc' = "done"
  /\ UNCHANGED <<entry, present, file, text, doc_type, calls, metadata, escaped>>

Next == NbCheckExists \/ UiUpload \/ Extract \/ CheckText \/ GenerateMetadata \/ Output

Spec == Init /\ [][Next]_vars

\* ------------------------------------------------------------------ claims
CallsOf(cap) == SelectSeq(calls, LAMBDA c : c.cap = cap)

Extracted == pc \notin {"start", "extract"} /\ present

Produced == metadata # <<>>

DotsOf(s) == {i \in 1..Len(s) : s[i] = "."}

PrefixBeforeFirstDot(s) ==
  IF DotsOf(s) = {} THEN s ELSE SubSeq(s, 1, MinOf(DotsOf(s)) - 1)

\* whitespace-separated tokens, counted by the position where each one ends
TokenCount(t) ==
  Cardinality({i \in 1..Len(t) :
                 ~IsSpace(t[i]) /\ (i = Len(t) \/ IsSpace(t[i + 1]))})

\* C1: for a PDF extension, a direct extraction that is empty after trimming
\* is followed by one OCR call and the type Scanned PDF; a non-empty one gives
\* the type PDF and no OCR call; the type is Scanned PDF only for a PDF
\* extension whose direct extraction was empty.
C1_PdfOcrFallback ==
  LET pdfs == CallsOf("pdf-parse")
      ocrs == CallsOf("ocr")
  IN /\ (Extracted /\ Ext(file.name) = DotPdf) =>
          /\ Len(pdfs) = 1
          /\ pdfs[1].ok =>
               IF Strip(pdfs[1].ret) = <<>>
               THEN Len(ocrs) = 1 /\ (ocrs[1].ok => doc_type = "Scanned PDF")
               ELSE ocrs = <<>> /\ doc_type = "PDF"
     /\ doc_type = "Scanned PDF" =>
          /\ Ext(file.name) = DotPdf
          /\ Len(pdfs) = 1 /\ pdfs[1].ok /\ Strip(pdfs[1].ret) = <<>>
     /\ ocrs # <<>> => Ext(file.name) = DotPdf

C1_Witness ==
  /\ pc = "done" /\ doc_type = "Scanned PDF" /\ Produced
  /\ Len(CallsOf("ocr")) = 1

\* C2: a failed extraction stage or model call aborts the document, surfaces
\* an error message and lets no error escape the entry point.
C2_FailureHandled ==
  \A i \in 1..Len(calls) :
    ~calls[i].ok =>
      /\ escaped = "none"
      /\ pc = "done"
      /\ metadata = <<>>
      /\ \E j \in 1..Len(out) : out[j].kind = "error"

\* C3: a missing file path (notebook) or an empty extracted text (also after
\* the OCR fallback) produces no record, calls neither model, reports a
\* warning or error and stops; no capability is called a second time.
C3_NoRecordOnMissingOrEmpty ==
  LET missing == entry = "notebook" /\ ~present /\ pc # "start"
      empty == Extracted /\ pc # "crashed" /\ text = <<>>
  IN (missing \/ empty) =>
       /\ metadata = <<>>
       /\ CallsOf("summarize") = <<>> /\ CallsOf("keywords") = <<>>
       /\ pc \in {"checktext", "done"}
       /\ pc = "done" =>
            /\ \E j \in 1..Len(out) : out[j].kind \in {"warning", "error"}
            /\ ~ENABLED Next
       /\ \A i, j \in 1..Len(calls) : calls[i].cap = calls[j].cap => i = j

C3_Witness ==
  /\ pc = "done" /\ text = <<>> /\ Len(CallsOf("ocr")) = 1
  /\ CallsOf("ocr")[1].ok /\ metadata = <<>>

\* C4: an extension that is none of pdf, docx, txt invokes no extraction
\* capability and yields the empty text with type Unknown.
C4_UnsupportedExtension ==
  (Extracted /\ Ext(file.name) \notin {DotPdf, DotDocx, DotTxt}) =>
    calls = <<>> /\ text = <<>> /\ doc_type = "Unknown" /\ escaped = "none"

C4_Witness ==
  /\ pc = "done" /\ present /\ Ext(file.name) \notin {DotPdf, DotDocx, DotTxt}
  /\ out # <<>> /\ calls = <<>>

\* C5: chunked summarization (chunk_size 1000, max_chunks 5) calls the
\* summarizer min(ceil(L/1000), 5) times, on text[0:1000], text[1000:2000],
\* ... in order, and the summary is the results joined by one space.
C5_ChunkedSummary ==
  (entry = "ui_chunked" /\ Produced) =>
    LET sc == CallsOf("summarize")
        L == Len(text)
        n == Min2((L + 999) \div 1000, 5)
    IN /\ Len(sc) = n
       /\ \A k \in 1..n :
            sc[k].ok /\ sc[k].arg = SubSeq(text, 1000 * (k - 1) + 1, Min2(1000 * k, L))
       /\ metadata[1].summary = Join([k \in 1..n |-> sc[k].ret], <<" ">>)

C5_Witness ==
  /\ entry = "ui_chunked" /\ Produced /\ Len(text) > 5000
  /\ Len(CallsOf("summarize")) = 5

\* C6: truncate-then-summarize makes exactly one summarizer call, on the
\* first 1024 characters of a text longer than 1024 and on the whole text
\* otherwise; the keyword extractor receives the full text.
C6_TruncateSummary ==
  (entry \in {"notebook", "ui_truncate"} /\ Produced) =>
    LET sc == CallsOf("summarize")
        kc == CallsOf("keywords")
    IN /\ Len(sc) = 1
       /\ sc[1].arg = IF Len(text) > 1024 THEN SubSeq(text, 1, 1024) ELSE text
       /\ Len(kc) = 1 /\ kc[1].arg = text

C6_Witness ==
  /\ entry = "notebook" /\ Produced /\ Len(text) = 1025
  /\ Len(CallsOf("summarize")[1].arg) = 1024

\* C7: title is the prefix of summary before its first '.', and the whole
\* summary when it has no '.'.
C7_TitleRule ==
  Produced => metadata[1].title = PrefixBeforeFirstDot(metadata[1].summary)

C7_Witness ==
  /\ Produced /\ DotsOf(metadata[1].summary) = {}
  /\ metadata[1].summary # <<>> /\ metadata[1].title = metadata[1].summary

\* C8 as stated: title is the part of summary before its first period, and
\* empty when summary has no period.
C8_TitleEmptyWithoutPeriod ==
  Produced =>
    LET s == metadata[1].summary
    IN metadata[1].title =
         IF DotsOf(s) = {} THEN <<>> ELSE SubSeq(s, 1, MinOf(DotsOf(s)) - 1)

\* C8 amended: title is a period-free prefix of summary that either is the
\* whole summary (no period present) or is followed by a period.
C8_TitleIsPeriodFreePrefix ==
  Produced =>
    LET s == metadata[1].summary
        t == metadata[1].title
    IN /\ Len(t) <= Len(s) /\ t = SubSeq(s, 1, Len(t))
       /\ DotsOf(t) = {}
       /\ Len(t) = Len(s) \/ s[Len(t) + 1] = "."

C8_Witness ==
  /\ Produced /\ entry = "ui_chunked" /\ Len(CallsOf("summarize")) >= 2
  /\ DotsOf(metadata[1].summary) = {} /\ metadata[1].title # <<>>

\* C9: word_count is the number of whitespace-separated tokens of the full
\* extracted text, in every summarization mode and for every summary.
C9_WordCountFullText ==
  Produced => metadata[1].word_count = TokenCount(text)

C9_Witness ==
  /\ Produced /\ entry = "ui_truncate" /\ Len(text) > 1024
  /\ metadata[1].word_count > TokenCount(CallsOf("summarize")[1].arg)

\* C10 as stated: sample.txt containing "The quick brown fox. It jumps."
\* gives document_type TXT, word_count 7 and the title by the title rule.
C10_SampleSevenWords ==
  (file.name = SampleName /\ file.content = SampleText /\ Produced) =>
    /\ metadata[1].document_type = "TXT"
    /\ metadata[1].word_count = 7
    /\ metadata[1].title = PrefixBeforeFirstDot(metadata[1].summary)

\* C10 amended: the same input gives document_type TXT, word_count 6 and the
\* title by the title rule.
C10_SampleSixWords ==
  (file.name = SampleName /\ file.content = SampleText /\ Produced) =>
    /\ metadata[1].document_type = "TXT"
    /\ metadata[1].word_count = 6
    /\ metadata[1].title = PrefixBeforeFirstDot(metadata[1].summary)

C10_Witness ==
  /\ file.name = SampleName /\ file.content = SampleText /\ Produced
  /\ entry = "notebook" /\ pc = "done"
  /\ metadata[1].title = <<"T", "h", "e">>
====
